---- MODULE Spec2Model ----
(***************************************************************************)
(* A model of the PocketBase adapter for Better Auth (src/index.ts):       *)
(* parseWhere, the session bootstrap ensureAuth and the eight facade       *)
(* operations, invoked concurrently on one PocketBase handle.              *)
(*                                                                         *)
(* An asynchronous operation is atomic between two awaits.  A step of a    *)
(* invocation is therefore one of: the synchronous start (up               *)
(* to `await ensureAuth()`), the completion of a password login, the       *)
(* resumption after ensureAuth (up to the first awaited collection call),  *)
(* or the completion of an awaited collection call followed by the code    *)
(* up to the next await or the return.  The backend executes a call at     *)
(* the step in which the awaiting invocation is resumed.                   *)
(***************************************************************************)
EXTENDS Integers, Sequences, FiniteSets, TLC

\* ------------------------------------------------------------------ bounds
\* Largest record identifier of the small collection.
MaxRecs == 2
\* Size of the large collection used for the bulk operations.
BulkRecs == 501

\* findMany is called with limit 0..MaxLimit (0: absent) and the default size.
MaxLimit == 3
\* findMany is called with offset 0..MaxOffset (0: absent), 25 and 50.
MaxOffset == 4
\* Sizes of the collections findMany pages through: a few records, and more
\* than one page of the default size.
FindRecs == 5
ManyRecs == 60

\* Longest condition list passed to parseWhere, and longest array value.
MaxConds == 2
MaxArrLen == 2

\* The facade invocations of a behaviour: each is made once, at any time, so
\* the two run one after the other or overlap in every possible way.
Procs == {"p", "q"}

\* ---------------------------------------------------------- program values
\* findMany: `limit || 50`
DefaultPageSize == 50
\* (an updateMany that fetched one page of the default size)
UpdateManyPageSize_default == DefaultPageSize
\* updateMany: getList(1, 500, ...)
UpdateManyPageSize == 500
\* deleteMany: getList(1, 500, ...)
DeleteManyPageSize == 500

\* Failures a backend call can raise (the adapter does not classify them).
Errs == {"E_network", "E_rejected"}
NoErr == "none"

\* Tokens a handle's authStore can hold.
NoToken == ""
CfgToken == "cfg-token"
LoginToken == "superuser-token"
CallerToken == "caller-token"

\* ------------------------------------------------------------- JS values
\* A condition value: string | number | boolean | array of primitives.
Str(s) == [t |-> "string", s |-> s, n |-> 0, b |-> FALSE, a |-> <<>>]
Num(n) == [t |-> "number", s |-> "", n |-> n, b |-> FALSE, a |-> <<>>]
Bool(b) == [t |-> "boolean", s |-> "", n |-> 0, b |-> b, a |-> <<>>]
Arr(a) == [t |-> "array", s |-> "", n |-> 0, b |-> FALSE, a |-> a]

Cond(f, o, v) == [field |-> f, operator |-> o, value |-> v]

RECURSIVE JoinStr(_, _)
\* Array.prototype.join
JoinStr(ss, sep) ==
  IF Len(ss) = 0 THEN ""
  ELSE IF Len(ss) = 1 THEN ss[1]
  ELSE ss[1] \o sep \o JoinStr(Tail(ss), sep)

\* String(v) of a primitive, as a template literal renders it.
PrimToString(v) ==
  CASE v.t = "string" -> v.s
    [] v.t = "number" -> ToString(v.n)
    [] v.t = "boolean" -> (IF v.b THEN "true" ELSE "false")
    [] OTHER -> ""

\* `${v}` for any condition value (an array renders as its elements joined by ",").
TemplateString(v) ==
  IF v.t = "array"
  THEN JoinStr([i \in 1..Len(v.a) |-> PrimToString(v.a[i])], ",")
  ELSE PrimToString(v)

\* (a rendering that double-quotes every value, not only strings)
Quoted_quotesAll(v) == "\"" \o TemplateString(v) \o "\""
\* typeof v === "string" ? `"${v}"` : v, then rendered in a template literal.
Quoted(v) ==
  IF v.t = "string" THEN "\"" \o v.s \o "\"" ELSE TemplateString(v)

\* The clause one condition pushes onto `filters` (<<>> when it pushes none).
ClauseOf(item) ==
  LET field == item.field
      value == Quoted(item.value)
      raw == TemplateString(item.value)
  IN CASE item.operator = "eq" -> <<field \o " = " \o value>>
       [] item.operator = "ne" -> <<field \o " != " \o value>>
       [] item.operator = "in" ->
            IF item.value.t = "array"
            THEN <<field \o " ?~ ["
                   \o JoinStr([i \in 1..Len(item.value.a) |-> Quoted(item.value.a[i])], ", ")
                   \o "]">>
            ELSE <<>>
       [] item.operator = "contains" -> <<field \o " ~ \"" \o raw \o "\"">>
       [] item.operator = "starts_with" -> <<field \o " ~ \"" \o raw \o "%\"">>
       [] item.operator = "ends_with" -> <<field \o " ~ \"%" \o raw \o "\"">>
       [] item.operator = "gt" -> <<field \o " > " \o value>>
       [] item.operator = "gte" -> <<field \o " >= " \o value>>
       [] item.operator = "lt" -> <<field \o " < " \o value>>
       [] item.operator = "lte" -> <<field \o " <= " \o value>>
       [] OTHER -> <<>>

RECURSIVE Filters(_)
\* The `filters` array after the loop over `where`.
Filters(where) ==
  IF Len(where) = 0 THEN <<>>
  ELSE ClauseOf(where[1]) \o Filters(Tail(where))

\* parseWhere(where): the PocketBase filter string ("" for an absent or empty list).
parseWhere(where) ==
  IF Len(where) = 0 THEN "" ELSE JoinStr(Filters(where), " && ")

RECURSIVE Restricting(_)
\* The conditions of `where` that contribute a clause to the compiled filter:
\* what the backend is asked to enforce.
Restricting(where) ==
  IF Len(where) = 0 THEN <<>>
  ELSE (IF ClauseOf(where[1]) = <<>> THEN <<>> ELSE <<where[1]>>)
       \o Restricting(Tail(where))

\* ------------------------------------------------------------------ state
VARIABLES
  pbConfig,    \* the `pb` option: a PocketBase instance, or {url, adminEmail?, adminPassword?, token?}
  debugLogs,   \* the `debugLogs` option
  authToken,   \* pb.authStore.token
  authValid,   \* pb.authStore.isValid
  db,          \* the backend collection: identifier -> [st, v], st "free", "live" or "gone"
  pc,          \* per invocation: "idle", "login", "auth", "call" or "done"
  op,          \* per invocation: the facade operation being run
  args,        \* per invocation: the operation's arguments
  calls,       \* per invocation: the backend calls this invocation has issued, in order
  items,       \* per invocation: result.items of this invocation's fetch
  count,       \* per invocation: the loop counter of updateMany / deleteMany
  resp,        \* per invocation: the outcome of the last awaited backend call
  result,      \* per invocation: what the invocation returned or threw
  logged,      \* per invocation: console.error was called by this invocation
  validAtStart,\* per invocation: pb.authStore.isValid when the invocation started
  logins,      \* number of authWithPassword calls issued by ensureAuth
  saves,       \* number of pb.authStore.save calls made by ensureAuth
  loginFailed, \* some authWithPassword call has failed
  expired      \* the session has been invalidated after it was established

vars == <<pbConfig, debugLogs, authToken, authValid, db, pc, op, args, calls, items,
          count, resp, result, logged, validAtStart, logins, saves, loginFailed,
          expired>>

procVars == <<pc, op, args, calls, items, count, resp, result, logged, validAtStart>>
authVars == <<authToken, authValid, logins, saves, loginFailed, expired>>

\* ---------------------------------------------------------------- records
\* A stored record as the backend returns it.
Record(i, v) == [id |-> i, v |-> v]
NoRecord == [id |-> 0]
\* A payload (create's data, update's patch) sets the field v.
Payload(v) == [v |-> v]
NoPayload == [nil |-> 0]
\* The backend may return a written field in its own canonical form
\* (a date as a string, a coerced number): a value distinct from the one sent.
ServerForm(v) == v + 10

Min(a, b) == IF a < b THEN a ELSE b

\* -------------------------------------------------------- backend semantics
\* Whether a stored record satisfies one condition the filter carries.
Holds(rec, c) ==
  CASE c.operator = "eq" -> rec[c.field] = c.value.n
    [] c.operator = "ne" -> rec[c.field] # c.value.n
    [] c.operator = "gt" -> rec[c.field] > c.value.n
    [] c.operator = "gte" -> rec[c.field] >= c.value.n
    [] c.operator = "lt" -> rec[c.field] < c.value.n
    [] c.operator = "lte" -> rec[c.field] <= c.value.n
    [] OTHER -> FALSE

Matches(d, i, conds) ==
  /\ d[i].st = "live"
  /\ \A k \in 1..Len(conds) : Holds(Record(i, d[i].v), conds[k])

\* The identifiers of the matching records, in the backend's default order.
MatchingIds(d, conds) ==
  SelectSeq([i \in 1..Len(d) |-> i], LAMBDA i : Matches(d, i, conds))

\* getList(page, perPage, {filter}): the page's items and the total count.
GetList(d, page, perPage, conds) ==
  LET all == MatchingIds(d, conds)
      lo == (page - 1) * perPage + 1
      hi == Min(page * perPage, Len(all))
  IN [items |-> [k \in 1..(IF hi >= lo THEN hi - lo + 1 ELSE 0) |->
                   Record(all[lo + k - 1], d[all[lo + k - 1]].v)],
      totalItems |-> Len(all)]

\* The fields a list request can be sorted by.
SortFields == {"id", "v"}
\* The sort option as the backend reads it: "-field" is descending.
SortDesc(sort) == \E f \in SortFields : sort = "-" \o f
SortField(sort) == CHOOSE f \in SortFields : sort = f \/ sort = "-" \o f
Key(d, i, f) == IF f = "id" THEN i ELSE d[i].v
\* Record i comes before record j in the result list (equal keys keep the
\* default order).
Precedes(d, i, j, hasSort, sort) ==
  IF ~hasSort THEN i < j
  ELSE LET ki == Key(d, i, SortField(sort))
           kj == Key(d, j, SortField(sort))
       IN IF ki = kj THEN i < j
          ELSE IF SortDesc(sort) THEN ki > kj ELSE ki < kj

\* The identifiers `ids` in the order of the result list.
Ordered(d, ids, hasSort, sort) ==
  SortSeq(ids, LAMBDA i, j : Precedes(d, i, j, hasSort, sort))

\* getList(page, perPage, {filter, sort}): the page's items and the total count.
GetListSorted(d, page, perPage, conds, hasSort, sort) ==
  LET all == IF hasSort THEN Ordered(d, MatchingIds(d, conds), hasSort, sort)
             ELSE MatchingIds(d, conds)
      lo == (page - 1) * perPage + 1
      hi == Min(page * perPage, Len(all))
  IN [items |-> [k \in 1..(IF hi >= lo THEN hi - lo + 1 ELSE 0) |->
                   Record(all[lo + k - 1], d[all[lo + k - 1]].v)],
      totalItems |-> Len(all)]

\* The identifiers the backend may give a created record.
FreeIds(d) == {i \in 1..Len(d) : d[i].st = "free"}
\* The identifier given to the next created record: one never used before.
NewId(d) == CHOOSE i \in FreeIds(d) : \A j \in FreeIds(d) : i <= j

\* ------------------------------------------------------------ call records
Call(kind, page, perPage, hasFilter, filter, conds, id, payload, tok) ==
  [kind |-> kind, page |-> page, perPage |-> perPage, hasFilter |-> hasFilter,
   filter |-> filter, conds |-> conds, hasSort |-> FALSE, sort |-> "",
   id |-> id, payload |-> payload, tok |-> tok]

LoginCall(tok) == Call("authWithPassword", 0, 0, FALSE, "", <<>>, 0, NoPayload, tok)
CreateCall(data, tok) == Call("create", 0, 0, FALSE, "", <<>>, 0, data, tok)
UpdateCall(id, patch, tok) == Call("update", 0, 0, FALSE, "", <<>>, id, patch, tok)
DeleteCall(id, tok) == Call("delete", 0, 0, FALSE, "", <<>>, id, NoPayload, tok)
\* getList(page, perPage, {filter}): the filter string as compiled.
ListCall(page, perPage, where, tok) ==
  Call("getList", page, perPage, TRUE, parseWhere(where), Restricting(where), 0, NoPayload, tok)
\* (a fetch that passed the compiled filter as it is, the empty string included)
ListCallOpt_sendsEmptyFilter(page, perPage, where, tok) ==
  ListCall(page, perPage, where, tok)
\* getList(page, perPage, {filter: filter || undefined}).
ListCallOpt(page, perPage, where, tok) ==
  Call("getList", page, perPage, parseWhere(where) # "", parseWhere(where),
       Restricting(where), 0, NoPayload, tok)

\* ----------------------------------------------------------------- results
Res(kind, rec, list, n, err) == [kind |-> kind, rec |-> rec, list |-> list, n |-> n, err |-> err]
Pending == Res("pending", NoRecord, <<>>, 0, NoErr)
Null == Res("null", NoRecord, <<>>, 0, NoErr)
Void == Res("void", NoRecord, <<>>, 0, NoErr)
Rec(r) == Res("record", r, <<>>, 0, NoErr)
List(xs) == Res("list", NoRecord, xs, 0, NoErr)
Number(n) == Res("number", NoRecord, <<>>, n, NoErr)
Thrown(e) == Res("thrown", NoRecord, <<>>, 0, e)

\* The outcome of an awaited backend call.
Resp(err, rec, total) == [err |-> err, rec |-> rec, totalItems |-> total]
NoResp == Resp(NoErr, NoRecord, 0)

\* ------------------------------------------------------------- ensureAuth
\* What ensureAuth does before its first await, from the `pb` option and the
\* handle's authStore: "return" (nothing), "save" (authStore.save(token, null))
\* or "login" (await authWithPassword).
\* (an ensureAuth that logs in whenever the handle has no valid session,
\* without looking at what the `pb` option supplies)
ensureAuth_loginWheneverInvalid(c, tok, valid) ==
  IF c.kind = "params" /\ c.token THEN (IF tok # CfgToken THEN "save" ELSE "return")
  ELSE IF ~valid THEN "login"
  ELSE "return"
\* (an ensureAuth that tries adminEmail/adminPassword before the token)
ensureAuth_passwordFirst(c, tok, valid) ==
  IF c.kind = "instance" THEN "return"
  ELSE IF c.email /\ c.password THEN (IF ~valid THEN "login" ELSE "return")
  ELSE IF c.token THEN (IF tok # CfgToken THEN "save" ELSE "return")
  ELSE "return"
\* (an ensureAuth that does not consult authStore.isValid before logging in)
ensureAuth_ignoresValidity(c, tok, valid) ==
  IF c.kind = "instance" THEN "return"
  ELSE IF c.token THEN (IF tok # CfgToken THEN "save" ELSE "return")
  ELSE IF c.email /\ c.password THEN "login"
  ELSE "return"
ensureAuth(c, tok, valid) ==
  IF c.kind = "instance" THEN "return"
  ELSE IF c.token THEN (IF tok # CfgToken THEN "save" ELSE "return")
  ELSE IF c.email /\ c.password THEN (IF ~valid THEN "login" ELSE "return")
  ELSE "return"

\* `await ensureAuth()` stands before the try block of every operation: a
\* rejected login rejects the operation itself.
ensureAuthRejected(o, e) == Thrown(e)

\* ------------------------------------------------------- findMany paging
\* const perPage = limit || 50   (0 stands for an absent or zero limit)
findManyPerPage(limit) == IF limit # 0 THEN limit ELSE DefaultPageSize
\* (a page number that counts pages from 0)
findManyPage_zeroBased(offset, limit) ==
  IF offset # 0 THEN offset \div (IF limit # 0 THEN limit ELSE DefaultPageSize) ELSE 1
\* const page = offset ? Math.floor(offset / (limit || 50)) + 1 : 1
findManyPage(offset, limit) ==
  IF offset # 0 THEN (offset \div (IF limit # 0 THEN limit ELSE DefaultPageSize)) + 1 ELSE 1
\* const sort = sortBy ? `${direction === "desc" ? "-" : ""}${field}` : undefined
findManySort(sortBy) ==
  (IF sortBy.direction = "desc" THEN "-" ELSE "") \o sortBy.field

NoSort == [present |-> FALSE, field |-> "", direction |-> ""]
SortBy(f, d) == [present |-> TRUE, field |-> f, direction |-> d]

Args(where, data, update, limit, offset, sortBy) ==
  [where |-> where, data |-> data, update |-> update, limit |-> limit,
   offset |-> offset, sortBy |-> sortBy]

\* The first backend collection call of an operation, issued after ensureAuth.
FirstCall(o, a, tok) ==
  CASE o = "create" -> CreateCall(a.data, tok)
    [] o = "findOne" -> ListCall(1, 1, a.where, tok)
    [] o = "findMany" ->
         [ListCallOpt(findManyPage(a.offset, a.limit), findManyPerPage(a.limit), a.where, tok)
            EXCEPT !.hasSort = a.sortBy.present,
                   !.sort = IF a.sortBy.present THEN findManySort(a.sortBy) ELSE ""]
    [] o = "count" -> ListCallOpt(1, 1, a.where, tok)
    [] o = "update" -> ListCall(1, 1, a.where, tok)
    [] o = "updateMany" -> ListCallOpt(1, UpdateManyPageSize, a.where, tok)
    [] o = "delete" -> ListCall(1, 1, a.where, tok)
    [] o = "deleteMany" -> ListCallOpt(1, DeleteManyPageSize, a.where, tok)

\* ------------------------------------------------- returns and catch blocks
\* create: return record / catch: throw error
createResult(record) == Rec(record)
\* (a create whose catch block returned null like the other operations)
createCatch_swallows(e) == Null
createCatch(e) == Thrown(e)
\* findOne: return result.items[0] || null / catch: return null
findOneResult(its) == IF Len(its) > 0 THEN Rec(its[1]) ELSE Null
findOneCatch(e) == Null
\* findMany: return result.items / catch: return []
findManyResult(its) == List(its)
findManyCatch(e) == List(<<>>)
\* count: return result.totalItems / catch: return 0
\* (a count that returned the number of items of the fetched page)
countResult_pageLength(its, totalItems) == Number(Len(its))
countResult(its, totalItems) == Number(totalItems)
countCatch(e) == Number(0)
\* update: return { ...updated, ...update } / catch: return null
\* (a merge in the other order, { ...update, ...updated })
updateResult_serverWins(updated, update) ==
  Rec([k \in DOMAIN updated \cup DOMAIN update |->
         IF k \in DOMAIN updated THEN updated[k] ELSE update[k]])
updateResult(updated, update) ==
  Rec([k \in DOMAIN updated \cup DOMAIN update |->
         IF k \in DOMAIN update THEN update[k] ELSE updated[k]])
updateCatch(e) == Null
\* updateMany: return count / catch: return 0
updateManyResult(n) == Number(n)
\* (an updateMany whose catch block returned the count reached so far)
updateManyCatch_returnsCount(n, e) == Number(n)
updateManyCatch(n, e) == Number(0)
\* delete: no return value / catch: nothing
deleteCatch(e) == Void
\* deleteMany: return count / catch: return 0
deleteManyResult(n) == Number(n)
\* (a deleteMany whose catch block returned the count reached so far)
deleteManyCatch_returnsCount(n, e) == Number(n)
deleteManyCatch(n, e) == Number(0)

\* ------------------------------------------------------------------- Init
\* The `pb` option: a PocketBase instance, or connection parameters with any
\* of token, adminEmail and adminPassword supplied.
Configs ==
  {[kind |-> "instance", token |-> FALSE, email |-> FALSE, password |-> FALSE]}
  \cup {[kind |-> "params", token |-> t, email |-> e, password |-> w] :
          t \in BOOLEAN, e \in BOOLEAN, w \in BOOLEAN}

\* A collection of n records (v alternating 1, 0) with room for `room` more.
Collection(n, room) ==
  [i \in 1..(n + room) |->
     IF i <= n THEN [st |-> "live", v |-> i % 2] ELSE [st |-> "free", v |-> 0]]

NoArgs == Args(<<>>, NoPayload, NoPayload, 0, 0, NoSort)

InitCallers ==
  /\ pc = [p \in Procs |-> "idle"]
  /\ op = [p \in Procs |-> "none"]
  /\ args = [p \in Procs |-> NoArgs]
  /\ calls = [p \in Procs |-> <<>>]
  /\ items = [p \in Procs |-> <<>>]
  /\ count = [p \in Procs |-> 0]
  /\ resp = [p \in Procs |-> NoResp]
  /\ result = [p \in Procs |-> Pending]
  /\ logged = [p \in Procs |-> FALSE]
  /\ validAtStart = [p \in Procs |-> FALSE]
  /\ logins = 0
  /\ saves = 0
  /\ loginFailed = FALSE
  /\ expired = FALSE

\* pocketBaseAdapter(...): a handle the caller passed keeps the caller's
\* session, whatever its validity; `new PocketBase(url)` holds no session.
InitHandle ==
  /\ pbConfig \in Configs
  /\ debugLogs \in BOOLEAN
  /\ IF pbConfig.kind = "instance"
     THEN authToken = CallerToken /\ authValid \in BOOLEAN
     ELSE authToken = NoToken /\ authValid = FALSE

Init ==
  /\ InitHandle
  /\ db = Collection(MaxRecs, Cardinality(Procs))
  /\ InitCallers

\* ---------------------------------------------------------------- actions
\* The invocation-local state after a step of invocation p.
Local(p, pcv, callsv, itemsv, countv, respv, resultv, loggedv) ==
  /\ pc' = [pc EXCEPT ![p] = pcv]
  /\ calls' = [calls EXCEPT ![p] = callsv]
  /\ items' = [items EXCEPT ![p] = itemsv]
  /\ count' = [count EXCEPT ![p] = countv]
  /\ resp' = [resp EXCEPT ![p] = respv]
  /\ result' = [result EXCEPT ![p] = resultv]
  /\ logged' = [logged EXCEPT ![p] = loggedv]

\* The invocation issues one more backend call and awaits it.
Await(p, call, itemsv, countv) ==
  Local(p, "call", Append(calls[p], call), itemsv, countv, NoResp, Pending, FALSE)

\* The invocation returns or throws after a successful last call.
Return(p, itemsv, countv, respv, resultv) ==
  Local(p, "done", calls[p], itemsv, countv, respv, resultv, FALSE)

\* The invocation's catch block runs: if (debugLogs) console.error(...).
Catch(p, e, resultv) ==
  Local(p, "done", calls[p], items[p], count[p], Resp(e, NoRecord, 0), resultv, debugLogs)

Pend(p) == calls[p][Len(calls[p])]
Awaiting(p, o, kind) ==
  /\ pc[p] = "call"
  /\ op[p] = o
  /\ Pend(p).kind = kind

\* Invocation p of operation o with arguments a starts: the code up to
\* `await ensureAuth()`, ensureAuth's synchronous part included.
Invoke(p, o, a) ==
  /\ pc[p] = "idle"
  /\ op' = [op EXCEPT ![p] = o]
  /\ args' = [args EXCEPT ![p] = a]
  /\ validAtStart' = [validAtStart EXCEPT ![p] = authValid]
  /\ LET step == ensureAuth(pbConfig, authToken, authValid)
     IN /\ Local(p, IF step = "login" THEN "login" ELSE "auth",
                 IF step = "login" THEN <<LoginCall(authToken)>> ELSE <<>>,
                 <<>>, 0, NoResp, Pending, FALSE)
        /\ authToken' = IF step = "save" THEN CfgToken ELSE authToken
        /\ IF step = "save" THEN authValid' \in BOOLEAN ELSE authValid' = authValid
        /\ saves' = IF step = "save" THEN saves + 1 ELSE saves
        /\ logins' = IF step = "login" THEN logins + 1 ELSE logins
  /\ UNCHANGED <<pbConfig, debugLogs, db, loginFailed, expired>>

\* authWithPassword completes: the SDK stores the session on success; on
\* failure ensureAuth rejects and so does the operation.
AuthWithPasswordReturn(p) ==
  /\ pc[p] = "login"
  /\ \E e \in {NoErr} \cup Errs :
       IF e = NoErr
       THEN /\ Local(p, "auth", calls[p], <<>>, 0, NoResp, Pending, FALSE)
            /\ authToken' = LoginToken
            /\ authValid' = TRUE
            /\ UNCHANGED loginFailed
       ELSE /\ Local(p, "done", calls[p], <<>>, 0, Resp(e, NoRecord, 0),
                     ensureAuthRejected(op[p], e), FALSE)
            /\ loginFailed' = TRUE
            /\ UNCHANGED <<authToken, authValid>>
  /\ UNCHANGED <<pbConfig, debugLogs, db, op, args, validAtStart, logins, saves,
                 expired>>

\* The operation resumes after `await ensureAuth()` and issues its first
\* collection call.
Resume(p) ==
  /\ pc[p] = "auth"
  /\ Await(p, FirstCall(op[p], args[p], authToken), <<>>, 0)
  /\ UNCHANGED <<pbConfig, debugLogs, db, op, args, validAtStart, authVars>>

\* The session token expires (isValid is computed from the token's expiry).
Expire ==
  /\ authValid
  /\ authValid' = FALSE
  /\ expired' = TRUE
  /\ UNCHANGED <<pbConfig, debugLogs, db, procVars, authToken, logins, saves,
                 loginFailed>>

\* What no collection call changes.
Frame == UNCHANGED <<pbConfig, debugLogs, op, args, validAtStart, authVars>>

\* Outcomes of a backend call: success or one of the failures.
Outcomes == {NoErr} \cup Errs
\* update(id, ...) and delete(id) succeed only on a record that exists.
WriteOutcomes(d, id) == IF d[id].st = "live" THEN Outcomes ELSE Errs
\* The forms in which the backend may return a written value.
Forms(v) == {v, ServerForm(v)}

\* The collection after update(id, patch) / delete(id) / create(data).
Updated(d, id, patch) == [d EXCEPT ![id].v = patch.v]
Deleted(d, id) == [d EXCEPT ![id].st = "gone"]
Created(d, data) == [d EXCEPT ![NewId(d)] = [st |-> "live", v |-> data.v]]

\* create: the awaited pb.collection(...).create(data) completes.
createReturn(p) ==
  /\ Awaiting(p, "create", "create")
  /\ \E e \in (IF FreeIds(db) = {} THEN Errs ELSE Outcomes), f \in Forms(Pend(p).payload.v) :
       IF e = NoErr
       THEN LET record == Record(NewId(db), f)
            IN /\ db' = Created(db, Pend(p).payload)
               /\ Return(p, <<>>, 0, Resp(NoErr, record, 0), createResult(record))
       ELSE /\ Catch(p, e, createCatch(e))
            /\ UNCHANGED db
  /\ Frame

\* findOne: the awaited getList(1, 1, {filter}) completes.
findOneReturn(p) ==
  /\ Awaiting(p, "findOne", "getList")
  /\ \E e \in Outcomes :
       IF e = NoErr
       THEN LET r == GetList(db, Pend(p).page, Pend(p).perPage, Pend(p).conds)
            IN Return(p, r.items, 0, Resp(NoErr, NoRecord, r.totalItems),
                      findOneResult(r.items))
       ELSE Catch(p, e, findOneCatch(e))
  /\ UNCHANGED db
  /\ Frame

\* findMany: the awaited getList(page, perPage, {filter, sort}) completes.
findManyReturn(p) ==
  /\ Awaiting(p, "findMany", "getList")
  /\ \E e \in Outcomes :
       IF e = NoErr
       THEN LET r == GetListSorted(db, Pend(p).page, Pend(p).perPage, Pend(p).conds,
                                   Pend(p).hasSort, Pend(p).sort)
            IN Return(p, r.items, 0, Resp(NoErr, NoRecord, r.totalItems),
                      findManyResult(r.items))
       ELSE Catch(p, e, findManyCatch(e))
  /\ UNCHANGED db
  /\ Frame

\* count: the awaited getList(1, 1, {filter}) completes.
countReturn(p) ==
  /\ Awaiting(p, "count", "getList")
  /\ \E e \in Outcomes :
       IF e = NoErr
       THEN LET r == GetList(db, Pend(p).page, Pend(p).perPage, Pend(p).conds)
            IN Return(p, r.items, 0, Resp(NoErr, NoRecord, r.totalItems),
                      countResult(r.items, r.totalItems))
       ELSE Catch(p, e, countCatch(e))
  /\ UNCHANGED db
  /\ Frame

\* update: the fetch completes; with no item return null, else await
\* update(record.id, update) for the first item.
updateFetchReturn(p) ==
  /\ Awaiting(p, "update", "getList")
  /\ \E e \in Outcomes :
       IF e = NoErr
       THEN LET r == GetList(db, Pend(p).page, Pend(p).perPage, Pend(p).conds)
            IN IF Len(r.items) = 0
               THEN Return(p, r.items, 0, Resp(NoErr, NoRecord, r.totalItems), Null)
               ELSE Await(p, UpdateCall(r.items[1].id, args[p].update, authToken),
                          r.items, 0)
       ELSE Catch(p, e, updateCatch(e))
  /\ UNCHANGED db
  /\ Frame

\* (an update that sent the update call a second time when the first failed)
updateWriteReturn_retries(p) ==
  /\ Awaiting(p, "update", "update")
  /\ \E e \in WriteOutcomes(db, Pend(p).id), f \in Forms(Pend(p).payload.v) :
       IF e = NoErr
       THEN LET updated == Record(Pend(p).id, f)
            IN /\ db' = Updated(db, Pend(p).id, Pend(p).payload)
               /\ Return(p, items[p], 0, Resp(NoErr, updated, 0),
                         updateResult(updated, args[p].update))
       ELSE /\ IF Len(calls[p]) < 4
               THEN Await(p, Pend(p), items[p], 0)
               ELSE Catch(p, e, updateCatch(e))
            /\ UNCHANGED db
  /\ Frame

\* update: the awaited update(record.id, update) completes.
updateWriteReturn(p) ==
  /\ Awaiting(p, "update", "update")
  /\ \E e \in WriteOutcomes(db, Pend(p).id), f \in Forms(Pend(p).payload.v) :
       IF e = NoErr
       THEN LET updated == Record(Pend(p).id, f)
            IN /\ db' = Updated(db, Pend(p).id, Pend(p).payload)
               /\ Return(p, items[p], 0, Resp(NoErr, updated, 0),
                         updateResult(updated, args[p].update))
       ELSE /\ Catch(p, e, updateCatch(e))
            /\ UNCHANGED db
  /\ Frame

\* delete: the fetch completes; with an item await delete(items[0].id).
deleteFetchReturn(p) ==
  /\ Awaiting(p, "delete", "getList")
  /\ \E e \in Outcomes :
       IF e = NoErr
       THEN LET r == GetList(db, Pend(p).page, Pend(p).perPage, Pend(p).conds)
            IN IF Len(r.items) > 0
               THEN Await(p, DeleteCall(r.items[1].id, authToken), r.items, 0)
               ELSE Return(p, r.items, 0, Resp(NoErr, NoRecord, r.totalItems), Void)
       ELSE Catch(p, e, deleteCatch(e))
  /\ UNCHANGED db
  /\ Frame

\* delete: the awaited delete(items[0].id) completes.
deleteWriteReturn(p) ==
  /\ Awaiting(p, "delete", "delete")
  /\ \E e \in WriteOutcomes(db, Pend(p).id) :
       IF e = NoErr
       THEN /\ db' = Deleted(db, Pend(p).id)
            /\ Return(p, items[p], 0, NoResp, Void)
       ELSE /\ Catch(p, e, deleteCatch(e))
            /\ UNCHANGED db
  /\ Frame

\* (an updateMany that started the update of every fetched item at once and
\* awaited them together, Promise.all(result.items.map(...)))
updateManyFetchReturn_allAtOnce(p) ==
  /\ Awaiting(p, "updateMany", "getList")
  /\ \E e \in Outcomes :
       IF e = NoErr
       THEN LET r == GetList(db, Pend(p).page, Pend(p).perPage, Pend(p).conds)
            IN IF Len(r.items) = 0
               THEN Return(p, r.items, 0, Resp(NoErr, NoRecord, r.totalItems),
                           updateManyResult(0))
               ELSE Local(p, "call",
                          calls[p] \o [i \in 1..Len(r.items) |->
                                         UpdateCall(r.items[i].id, args[p].update, authToken)],
                          r.items, 0, NoResp, Pending, FALSE)
       ELSE Catch(p, e, updateManyCatch(0, e))
  /\ UNCHANGED db
  /\ Frame

\* updateMany: the fetch completes; the loop starts with the first item.
updateManyFetchReturn(p) ==
  /\ Awaiting(p, "updateMany", "getList")
  /\ \E e \in Outcomes :
       IF e = NoErr
       THEN LET r == GetList(db, Pend(p).page, Pend(p).perPage, Pend(p).conds)
            IN IF Len(r.items) = 0
               THEN Return(p, r.items, 0, Resp(NoErr, NoRecord, r.totalItems),
                           updateManyResult(0))
               ELSE Await(p, UpdateCall(r.items[1].id, args[p].update, authToken),
                          r.items, 0)
       ELSE Catch(p, e, updateManyCatch(0, e))
  /\ UNCHANGED db
  /\ Frame

\* updateMany: one awaited update(record.id, update) completes; count++ and
\* the loop goes on to the next item or ends.
updateManyWriteReturn(p) ==
  /\ Awaiting(p, "updateMany", "update")
  /\ \E e \in WriteOutcomes(db, Pend(p).id) :
       IF e = NoErr
       THEN /\ db' = Updated(db, Pend(p).id, Pend(p).payload)
            /\ IF count[p] + 1 < Len(items[p])
               THEN Await(p, UpdateCall(items[p][count[p] + 2].id, args[p].update, authToken),
                          items[p], count[p] + 1)
               ELSE Return(p, items[p], count[p] + 1, NoResp,
                           updateManyResult(count[p] + 1))
       ELSE /\ Catch(p, e, updateManyCatch(count[p], e))
            /\ UNCHANGED db
  /\ Frame

\* deleteMany: the fetch completes; the loop starts with the first item.
deleteManyFetchReturn(p) ==
  /\ Awaiting(p, "deleteMany", "getList")
  /\ \E e \in Outcomes :
       IF e = NoErr
       THEN LET r == GetList(db, Pend(p).page, Pend(p).perPage, Pend(p).conds)
            IN IF Len(r.items) = 0
               THEN Return(p, r.items, 0, Resp(NoErr, NoRecord, r.totalItems),
                           deleteManyResult(0))
               ELSE Await(p, DeleteCall(r.items[1].id, authToken), r.items, 0)
       ELSE Catch(p, e, deleteManyCatch(0, e))
  /\ UNCHANGED db
  /\ Frame

\* deleteMany: one awaited delete(record.id) completes.
deleteManyWriteReturn(p) ==
  /\ Awaiting(p, "deleteMany", "delete")
  /\ \E e \in WriteOutcomes(db, Pend(p).id) :
       IF e = NoErr
       THEN /\ db' = Deleted(db, Pend(p).id)
            /\ IF count[p] + 1 < Len(items[p])
               THEN Await(p, DeleteCall(items[p][count[p] + 2].id, authToken),
                          items[p], count[p] + 1)
               ELSE Return(p, items[p], count[p] + 1, NoResp,
                           deleteManyResult(count[p] + 1))
       ELSE /\ Catch(p, e, deleteManyCatch(count[p], e))
            /\ UNCHANGED db
  /\ Frame

\* ------------------------------------------------------------ specification
Ops == {"create", "findOne", "findMany", "count", "update", "updateMany",
        "delete", "deleteMany"}

\* The arguments the callers pass.
Wheres == {<<>>, <<Cond("v", "eq", Num(1))>>}
CallArgs == {Args(w, Payload(1), Payload(0), 0, 0, NoSort) : w \in Wheres}

Call_(p) == \E o \in Ops, a \in CallArgs : Invoke(p, o, a)

Next ==
  \/ \E p \in Procs : Call_(p)
  \/ \E p \in Procs : AuthWithPasswordReturn(p)
  \/ \E p \in Procs : Resume(p)
  \/ \E p \in Procs : createReturn(p)
  \/ \E p \in Procs : findOneReturn(p)
  \/ \E p \in Procs : findManyReturn(p)
  \/ \E p \in Procs : countReturn(p)
  \/ \E p \in Procs : updateFetchReturn(p)
  \/ \E p \in Procs : updateWriteReturn(p)
  \/ \E p \in Procs : updateManyFetchReturn(p)
  \/ \E p \in Procs : updateManyWriteReturn(p)
  \/ \E p \in Procs : deleteFetchReturn(p)
  \/ \E p \in Procs : deleteWriteReturn(p)
  \/ \E p \in Procs : deleteManyFetchReturn(p)
  \/ \E p \in Procs : deleteManyWriteReturn(p)
  \/ Expire

Spec == Init /\ [][Next]_vars

\* One invocation of a bulk operation through a caller-managed handle, over a
\* collection that is empty, small, or larger than one fetched page.
BulkSizes == {0, 1, 2, BulkRecs}

InitBulk ==
  /\ pbConfig = [kind |-> "instance", token |-> FALSE, email |-> FALSE, password |-> FALSE]
  /\ debugLogs \in BOOLEAN
  /\ authToken = CallerToken
  /\ authValid = TRUE
  /\ db \in {Collection(n, 0) : n \in BulkSizes}
  /\ InitCallers

\* The condition lists of the bulk calls: those of CallArgs, an `in` condition
\* whose value is not an array, and one followed by a comparison on another field.
BulkWheres ==
  Wheres \cup {<<Cond("v", "in", Num(1))>>,
               <<Cond("v", "in", Num(1)), Cond("id", "gte", Num(2))>>}
BulkArgs == {Args(w, Payload(1), Payload(0), 0, 0, NoSort) : w \in BulkWheres}

CallBulk == \E o \in {"updateMany", "deleteMany"}, a \in BulkArgs : Invoke("p", o, a)

NextBulk ==
  \/ CallBulk
  \/ Resume("p")
  \/ updateManyFetchReturn("p")
  \/ updateManyWriteReturn("p")
  \/ deleteManyFetchReturn("p")
  \/ deleteManyWriteReturn("p")

SpecBulk == InitBulk /\ [][NextBulk]_vars

\* One findMany through a caller-managed handle, with every combination of
\* conditions, limit, offset and sort, over an empty, a small and a large
\* collection.
FindLimits == (0..MaxLimit) \cup {DefaultPageSize}
FindOffsets == (0..MaxOffset) \cup {25, 50}
FindSorts == {NoSort} \cup {SortBy(f, d) : f \in SortFields, d \in {"asc", "desc"}}
FindArgs == {Args(w, NoPayload, NoPayload, l, o, s) :
               w \in Wheres, l \in FindLimits, o \in FindOffsets, s \in FindSorts}
FindSizes == {0, FindRecs, ManyRecs}

InitFind ==
  /\ pbConfig = [kind |-> "instance", token |-> FALSE, email |-> FALSE, password |-> FALSE]
  /\ debugLogs \in BOOLEAN
  /\ authToken = CallerToken
  /\ authValid = TRUE
  /\ db \in {Collection(n, 0) : n \in FindSizes}
  /\ InitCallers

CallFind == pc["p"] = "idle" /\ \E a \in FindArgs : Invoke("p", "findMany", a)

NextFind ==
  \/ CallFind
  \/ Resume("p")
  \/ findManyReturn("p")

SpecFind == InitFind /\ [][NextFind]_vars

\* One findOne through a caller-managed handle over an empty collection, with
\* every condition list of at most MaxConds conditions: each operator of
\* parseWhere with a string, a number and a boolean value, and `in` with
\* arrays of at most MaxArrLen strings and numbers as well.
WhereOperators == {"eq", "ne", "in", "contains", "starts_with", "ends_with",
                   "gt", "gte", "lt", "lte"}
PrimValues == {Str("a"), Num(7), Bool(TRUE)}
ElemValues == {Str("a"), Num(7)}
ArrValues == {Arr(a) : a \in UNION {[1..n -> ElemValues] : n \in 0..MaxArrLen}}
WhereConds ==
  {Cond("f", o, v) : o \in WhereOperators, v \in PrimValues}
  \cup {Cond("f", "in", v) : v \in ArrValues}
WhereLists == UNION {[1..n -> WhereConds] : n \in 0..MaxConds}
WhereArgs == {Args(w, NoPayload, NoPayload, 0, 0, NoSort) : w \in WhereLists}

InitWhere ==
  /\ pbConfig = [kind |-> "instance", token |-> FALSE, email |-> FALSE, password |-> FALSE]
  /\ debugLogs = FALSE
  /\ authToken = CallerToken
  /\ authValid = TRUE
  /\ db = Collection(0, 0)
  /\ InitCallers

CallWhere == pc["p"] = "idle" /\ \E a \in WhereArgs : Invoke("p", "findOne", a)

NextWhere ==
  \/ CallWhere
  \/ Resume("p")
  \/ findOneReturn("p")

SpecWhere == InitWhere /\ [][NextWhere]_vars

\* ------------------------------------------------------------------ claims
\* The operations whose catch block substitutes a default for a failure.
SuppressedOps == Ops \ {"create"}
\* The default each operation is said to return on a failure.
DefaultOf(o) ==
  CASE o \in {"findOne", "update"} -> Null
    [] o = "findMany" -> List(<<>>)
    [] o \in {"count", "updateMany", "deleteMany"} -> Number(0)
    [] OTHER -> Void

\* The collection calls of an invocation: its calls without the bootstrap's login.
CollCalls(p) == SelectSeq(calls[p], LAMBDA c : c.kind # "authWithPassword")
\* The invocation ended because the bootstrap's password login failed.
LoginRejected(p) ==
  /\ pc[p] = "done"
  /\ resp[p].err # NoErr
  /\ Len(calls[p]) = 1
  /\ calls[p][1].kind = "authWithPassword"
\* The invocation ended because a collection call (getList, create, update, delete) failed.
CollCallFailed(p) ==
  /\ pc[p] = "done"
  /\ resp[p].err # NoErr
  /\ Len(CollCalls(p)) >= 1
\* Constructed from connection parameters with admin email and password, no token.
PasswordConfig ==
  pbConfig.kind = "params" /\ ~pbConfig.token /\ pbConfig.email /\ pbConfig.password

\* C1: with admin email and password (no token), when the bootstrap's password
\* login fails, each of findOne, findMany, count, update, updateMany, delete and
\* deleteMany returns its default value and does not propagate the failure.
C1_LoginFailureReturnsDefault ==
  \A p \in Procs :
    (PasswordConfig /\ op[p] \in SuppressedOps /\ LoginRejected(p))
      => result[p] = DefaultOf(op[p])

\* C2: for each of findOne, findMany, count, update, updateMany, delete and
\* deleteMany, when a getList, update or delete call of the operation fails, the
\* operation does not throw and returns its default (null, [], 0, null, 0,
\* nothing, 0).
C2_CallFailureReturnsDefault ==
  \A p \in Procs :
    (op[p] \in SuppressedOps /\ CollCallFailed(p))
      => result[p] = DefaultOf(op[p])

\* An updateMany whose second per-record update failed returned 0.
C2_Witness ==
  \E p \in Procs :
    /\ op[p] = "updateMany"
    /\ CollCallFailed(p)
    /\ Len(CollCalls(p)) = 3
    /\ result[p] = Number(0)

\* C3: a create invocation that has resumed after the session bootstrap issues
\* exactly one record-creation call, carrying the caller's data unchanged; when
\* that call succeeds create returns the record the backend returned; when it
\* fails create throws that same failure, with or without debug logging; create
\* never returns a sentinel.
C3_CreatePropagates ==
  \A p \in Procs :
    op[p] = "create" =>
      /\ \A i \in 1..Len(calls[p]) : calls[p][i].kind \in {"authWithPassword", "create"}
      /\ Len(CollCalls(p)) <= 1
      /\ (pc[p] \in {"call", "done"} /\ ~LoginRejected(p)) =>
           /\ Len(CollCalls(p)) = 1
           /\ CollCalls(p)[1].kind = "create"
           /\ CollCalls(p)[1].payload = args[p].data
      /\ (pc[p] = "done" /\ resp[p].err = NoErr) => result[p] = Rec(resp[p].rec)
      /\ (pc[p] = "done" /\ resp[p].err # NoErr) => result[p] = Thrown(resp[p].err)
      /\ pc[p] = "done" => result[p].kind \in {"record", "thrown"}

\* Two creates ended with debug logging enabled: one returned the backend's
\* record, the other logged and threw the failure of its creation call.
C3_Witness ==
  /\ debugLogs
  /\ op["p"] = "create" /\ pc["p"] = "done" /\ result["p"] = Rec(resp["p"].rec)
  /\ db[resp["p"].rec.id].st = "live"
  /\ op["q"] = "create" /\ CollCallFailed("q") /\ logged["q"]
  /\ result["q"] = Thrown("E_rejected")

HasLogin(p) == \E i \in 1..Len(calls[p]) : calls[p][i].kind = "authWithPassword"
AllDone == \A p \in Procs : pc[p] = "done"

\* C4: on an adapter constructed with admin email and password (no token), whose
\* handle starts with no valid session, concurrent facade calls issue at most
\* one password login in all, provided no login fails and the session is not
\* invalidated afterwards.
C4_AtMostOneLogin ==
  (PasswordConfig /\ AllDone /\ ~loginFailed /\ ~expired) => logins <= 1

\* C5: constructed from a PocketBase instance, the adapter never issues a
\* password login and never writes the handle's stored token, whatever the
\* validity of the handle's session.
C5_InstanceNeverAuthenticates ==
  pbConfig.kind = "instance" =>
    /\ logins = 0
    /\ saves = 0
    /\ authToken = CallerToken
    /\ \A p \in Procs : ~HasLogin(p)

\* Both invocations ran to their end on a caller's handle, one of them started
\* while the handle had no valid session.
C5_Witness ==
  /\ pbConfig.kind = "instance"
  /\ AllDone
  /\ \E p \in Procs : ~validAtStart[p] /\ Len(calls[p]) >= 1

TokenConfig == pbConfig.kind = "params" /\ pbConfig.token

\* C6: constructed from connection parameters that include a token, the adapter
\* never issues a password login (admin email and password supplied or not,
\* session valid or not); every backend collection call is issued while the
\* handle's stored token equals the supplied token; and the stored token is
\* overwritten only when it differs from the supplied one.
C6_TokenPreferred ==
  /\ [](TokenConfig =>
          /\ logins = 0
          /\ \A p \in Procs : \A i \in 1..Len(calls[p]) :
               /\ calls[p][i].kind # "authWithPassword"
               /\ calls[p][i].tok = CfgToken)
  /\ [][(TokenConfig /\ saves' # saves) =>
          (authToken # CfgToken /\ authToken' = CfgToken)]_vars

\* With a token and credentials supplied and the session invalid, both
\* invocations made their collection calls and the token was stored once.
C6_Witness ==
  /\ TokenConfig /\ pbConfig.email /\ pbConfig.password
  /\ ~authValid
  /\ saves = 1
  /\ AllDone
  /\ \A p \in Procs : Len(calls[p]) >= 1 /\ ~validAtStart[p]

\* C7: constructed from connection parameters without a token, an operation
\* issues a password login exactly when admin email and password were both
\* supplied and the handle reported no valid session when the operation
\* started; the login is the operation's first backend call and no collection
\* call is issued while it is pending; an operation that starts while the session
\* is valid issues none; without both credentials no authentication attempt
\* (login or token write) is ever made.
C7_PasswordLoginIff ==
  (pbConfig.kind = "params" /\ ~pbConfig.token) =>
    /\ \A p \in Procs :
         pc[p] # "idle" =>
           (HasLogin(p) <=> (pbConfig.email /\ pbConfig.password /\ ~validAtStart[p]))
    /\ \A p \in Procs : \A i \in 2..Len(calls[p]) : calls[p][i].kind # "authWithPassword"
    /\ \A p \in Procs : pc[p] = "login" => Len(calls[p]) = 1
    /\ saves = 0
    /\ ~(pbConfig.email /\ pbConfig.password) =>
         (logins = 0 /\ authToken = NoToken /\ ~authValid)

\* One operation logged in and then made its collection call; the other
\* started afterwards, while the session was valid, and made its collection
\* call without a login.
C7_Witness ==
  /\ PasswordConfig
  /\ AllDone
  /\ logins = 1
  /\ \E p, q \in Procs :
       /\ HasLogin(p) /\ Len(calls[p]) >= 2
       /\ validAtStart[q] /\ ~HasLogin(q) /\ Len(calls[q]) >= 1

\* C8: an update that has resumed after the session bootstrap issues one
\* page-1/size-1 fetch with the compiled filter; when the fetch returns no item
\* it returns null and issues no write call; otherwise it issues exactly one
\* update call, for the identifier of the first fetched item and with the
\* caller's patch, and returns the record the backend returned overlaid with
\* the patch: the patch's value for every key of the patch, the backend's for
\* the others.
C8_UpdateFirstMatch ==
  \A p \in Procs :
    (op[p] = "update" /\ pc[p] \in {"call", "done"} /\ ~LoginRejected(p)) =>
      LET cs == CollCalls(p)
          fetched == Len(cs) >= 2 \/ (pc[p] = "done" /\ resp[p].err = NoErr)
      IN /\ Len(cs) \in {1, 2}
         /\ cs[1].kind = "getList" /\ cs[1].page = 1 /\ cs[1].perPage = 1
         /\ cs[1].filter = parseWhere(args[p].where)
         /\ (fetched /\ Len(items[p]) = 0) => (Len(cs) = 1 /\ result[p] = Null)
         /\ (fetched /\ Len(items[p]) > 0) =>
              /\ Len(cs) = 2
              /\ cs[2].kind = "update"
              /\ cs[2].id = items[p][1].id
              /\ cs[2].payload = args[p].update
         /\ (pc[p] = "done" /\ Len(cs) = 2 /\ resp[p].err = NoErr) =>
              /\ result[p].kind = "record"
              /\ DOMAIN result[p].rec = DOMAIN resp[p].rec \cup DOMAIN args[p].update
              /\ \A k \in DOMAIN result[p].rec :
                   result[p].rec[k] = IF k \in DOMAIN args[p].update
                                      THEN args[p].update[k]
                                      ELSE resp[p].rec[k]

\* An update returned the patch's value for a field the backend returned in
\* another form, and another update found no record and returned null.
C8_Witness ==
  \E p, q \in Procs :
    /\ op[p] = "update" /\ pc[p] = "done" /\ Len(CollCalls(p)) = 2
    /\ resp[p].err = NoErr
    /\ resp[p].rec.v # args[p].update.v
    /\ result[p].rec.v = args[p].update.v
    /\ result[p].rec.id = items[p][1].id
    /\ op[q] = "update" /\ pc[q] = "done" /\ resp[q].err = NoErr
    /\ Len(CollCalls(q)) = 1 /\ result[q] = Null

BulkOps == {"updateMany", "deleteMany"}
\* The collection before the invocation (SpecBulk runs one invocation).
InitialDb == Collection(Len(db), 0)
\* What a successful per-record call of the operation leaves of a record.
Written(o, r, patch) ==
  IF o = "updateMany" THEN [r EXCEPT !.v = patch.v] ELSE [r EXCEPT !.st = "gone"]

\* C9: when a backend call fails during updateMany or deleteMany the operation
\* returns 0, the value it returns when the filter matches no record.  When the
\* failing call is the fetch, no update/delete call is issued.  When it is the
\* k-th per-record call, the k-1 earlier writes stay applied, and the k-th and
\* the remaining fetched records are neither written nor called for.
C9_BulkFailureReturnsZero ==
  \A p \in Procs :
    op[p] \in BulkOps =>
      /\ (pc[p] = "done" /\ resp[p].err = NoErr /\ Len(items[p]) = 0)
           => result[p] = Number(0)
      /\ CollCallFailed(p) =>
           LET cs == CollCalls(p)
               k == Len(cs) - 1
           IN /\ result[p] = Number(0)
              /\ cs[1].kind = "getList"
              /\ k = 0 => db = InitialDb
              /\ k <= Len(items[p])
              /\ \A i \in 1..k :
                   /\ cs[i + 1].kind = (IF op[p] = "updateMany" THEN "update" ELSE "delete")
                   /\ cs[i + 1].id = items[p][i].id
              /\ \A i \in 1..(k - 1) :
                   db[items[p][i].id] =
                     Written(op[p], InitialDb[items[p][i].id], args[p].update)
              /\ \A i \in 1..Len(items[p]) :
                   i >= k => db[items[p][i].id] = InitialDb[items[p][i].id]

\* An updateMany over more than two fetched records failed at its second
\* update: it returned 0, the first record keeps the patch, the others are as
\* they were.
C9_Witness ==
  /\ op["p"] = "updateMany"
  /\ CollCallFailed("p")
  /\ Len(CollCalls("p")) = 3
  /\ Len(items["p"]) > 2
  /\ result["p"] = Number(0)
  /\ db[items["p"][1].id].v = args["p"].update.v
  /\ InitialDb[items["p"][1].id].v # args["p"].update.v
  /\ db[items["p"][2].id] = InitialDb[items["p"][2].id]

\* C10: when no backend call fails, updateMany (deleteMany) issues one fetch of
\* page 1 with page size 500, then one update (delete) call per fetched item,
\* in fetched order, and returns the number of fetched items; the fetched items
\* are the first 500 matching records at most, and matching records beyond the
\* first 500 receive no call.
C10_BulkFetchThenLoop ==
  \A p \in Procs :
    (op[p] \in BulkOps /\ pc[p] \in {"call", "done"} /\ ~CollCallFailed(p)) =>
      LET cs == CollCalls(p)
          matching == MatchingIds(InitialDb, Restricting(args[p].where))
          fetched == Len(cs) >= 2 \/ pc[p] = "done"
      IN /\ cs[1].kind = "getList" /\ cs[1].page = 1 /\ cs[1].perPage = 500
         /\ cs[1].filter = parseWhere(args[p].where)
         /\ cs[1].hasFilter = (parseWhere(args[p].where) # "")
         /\ \A i \in 2..Len(cs) :
              /\ cs[i].kind = (IF op[p] = "updateMany" THEN "update" ELSE "delete")
              /\ cs[i].id = items[p][i - 1].id
              /\ op[p] = "updateMany" => cs[i].payload = args[p].update
         /\ fetched =>
              /\ Len(items[p]) = Min(500, Len(matching))
              /\ \A i \in 1..Len(items[p]) : items[p][i].id = matching[i]
              /\ \A j \in 501..Len(matching) :
                   /\ db[matching[j]] = InitialDb[matching[j]]
                   /\ \A i \in 2..Len(cs) : cs[i].id # matching[j]
         /\ pc[p] = "done" =>
              /\ Len(cs) = 1 + Len(items[p])
              /\ result[p] = Number(Len(items[p]))
              /\ \A i \in 1..Len(items[p]) :
                   db[items[p][i].id] =
                     Written(op[p], InitialDb[items[p][i].id], args[p].update)

\* An updateMany over more than 500 matching records returned 500 and left
\* the 501st matching record as it was.
C10_Witness ==
  LET matching == MatchingIds(InitialDb, Restricting(args["p"].where))
  IN /\ op["p"] = "updateMany" /\ pc["p"] = "done" /\ ~CollCallFailed("p")
     /\ Len(matching) > 500
     /\ result["p"] = Number(500)
     /\ Len(calls["p"]) = 501
     /\ db[matching[500]].v = args["p"].update.v
     /\ db[matching[501]].v # args["p"].update.v

WriteKinds == {"update", "delete"}
\* The per-record calls an invocation has issued so far.
WriteCalls(p) == SelectSeq(calls[p], LAMBDA c : c.kind \in WriteKinds)

\* C11: within one updateMany or deleteMany invocation at most one per-record
\* call is in flight: the calls issued exceed the calls completed successfully
\* by at most one; a step issues at most one call; and the call for item i+1 is
\* issued in the step in which the call for item i completes successfully (the
\* counter is incremented and the write for item i is applied).
C11_OneWriteInFlight ==
  /\ [](\A p \in Procs :
          op[p] \in BulkOps =>
            /\ Len(WriteCalls(p)) <= count[p] + 1
            /\ (pc[p] = "done" /\ resp[p].err = NoErr) => Len(WriteCalls(p)) = count[p])
  /\ [][\A p \in Procs :
          (op[p] \in BulkOps /\ calls'[p] # calls[p]) =>
            /\ Len(calls'[p]) = Len(calls[p]) + 1
            /\ SubSeq(calls'[p], 1, Len(calls[p])) = calls[p]
            /\ (pc[p] = "call" /\ Pend(p).kind \in WriteKinds) =>
                 /\ count'[p] = count[p] + 1
                 /\ Pend(p).id = items[p][count[p] + 1].id
                 /\ calls'[p][Len(calls'[p])].id = items[p][count[p] + 2].id
                 /\ db'[Pend(p).id] = Written(op[p], db[Pend(p).id], args[p].update)]_vars

\* A deleteMany has completed its first two deletes and awaits the third,
\* the only call of the invocation still pending.
C11_Witness ==
  /\ op["p"] = "deleteMany" /\ pc["p"] = "call"
  /\ count["p"] = 2
  /\ Len(WriteCalls("p")) = 3
  /\ Pend("p").kind = "delete" /\ Pend("p").id = items["p"][3].id
  /\ db[items["p"][2].id].st = "gone"
  /\ db[items["p"][3].id].st = "live"

\* The page size and page number the claim states for limit and offset.
C12_PageSize(limit) == IF limit # 0 THEN limit ELSE 50
C12_Page(offset, limit) ==
  IF offset # 0 THEN (offset \div C12_PageSize(limit)) + 1 ELSE 1

\* C12: a findMany that has resumed after the session bootstrap issues exactly
\* one list request; its page size is limit when limit is a non-zero number and
\* 50 otherwise; its page number is floor(offset / pageSize) + 1 when a
\* non-zero offset is given and 1 otherwise (offset 0 and offset 25 with limit
\* 50 give page 1, offset 50 gives page 2); its sort is the field name,
\* prefixed with "-" exactly when the direction is descending, and is absent
\* when no sort is given.
C12_FindManyRequest ==
  \A p \in Procs :
    (op[p] = "findMany" /\ pc[p] \in {"call", "done"} /\ ~LoginRejected(p)) =>
      LET cs == CollCalls(p)
          a == args[p]
      IN /\ Len(cs) = 1
         /\ cs[1].kind = "getList"
         /\ cs[1].perPage = C12_PageSize(a.limit)
         /\ cs[1].page = C12_Page(a.offset, a.limit)
         /\ (a.limit = 50 /\ a.offset \in {0, 25}) => cs[1].page = 1
         /\ (a.limit = 50 /\ a.offset = 50) => cs[1].page = 2
         /\ cs[1].hasSort = a.sortBy.present
         /\ a.sortBy.present =>
              cs[1].sort = (IF a.sortBy.direction = "desc"
                            THEN "-" \o a.sortBy.field
                            ELSE a.sortBy.field)

\* A findMany with limit 50, offset 25 and a descending sort asked for page 1
\* of size 50 sorted by "-v", and got 50 records, a record with v = 1 first.
C12_Witness ==
  LET a == args["p"]
      c == Pend("p")
  IN /\ op["p"] = "findMany" /\ pc["p"] = "done" /\ Len(calls["p"]) = 1
     /\ a.limit = 50 /\ a.offset = 25 /\ a.sortBy = SortBy("v", "desc")
     /\ c.page = 1 /\ c.perPage = 50 /\ c.hasSort /\ c.sort = "-v"
     /\ Len(items["p"]) = 50 /\ items["p"][1].v = 1

\* C15: for every offset >= 0 and limit >= 1, the items a successful findMany
\* returns are exactly the records at 0-based positions offset .. offset+limit-1
\* of the backend's filtered, sorted result list.
C15_FindManyWindow ==
  \A p \in Procs :
    (op[p] = "findMany" /\ pc[p] = "done" /\ resp[p].err = NoErr /\ args[p].limit >= 1) =>
      LET a == args[p]
          all == Ordered(db, MatchingIds(db, Restricting(a.where)),
                         Pend(p).hasSort, Pend(p).sort)
          lo == a.offset + 1
          hi == Min(a.offset + a.limit, Len(all))
      IN result[p] = List([k \in 1..(IF hi >= lo THEN hi - lo + 1 ELSE 0) |->
                             Record(all[lo + k - 1], db[all[lo + k - 1]].v)])

\* The reference compiler of condition lists.
\* The comparison operators and their symbols.
RefSymbol ==
  [eq |-> "=", ne |-> "!=", gt |-> ">", gte |-> ">=", lt |-> "<", lte |-> "<="]
\* The text of a value: a string's characters, a number's or boolean's literal.
RefText(v) ==
  IF v.t = "string" THEN v.s
  ELSE IF v.t = "number" THEN ToString(v.n)
  ELSE IF v.b THEN "true" ELSE "false"
\* String values are double-quoted, numbers and booleans are not.
RefLiteral(v) == IF v.t = "string" THEN "\"" \o RefText(v) \o "\"" ELSE RefText(v)
\* A condition that gives no clause: `in` with a value that is not an array.
RefDropped(c) == c.operator = "in" /\ c.value.t # "array"

RECURSIVE RefJoin(_, _, _)
\* The first k texts of ts, each two separated by sep.
RefJoin(ts, k, sep) ==
  IF k = 0 THEN ""
  ELSE IF k = 1 THEN ts[1]
  ELSE RefJoin(ts, k - 1, sep) \o sep \o ts[k]

RefClause(c) ==
  IF c.operator \in DOMAIN RefSymbol
  THEN c.field \o " " \o RefSymbol[c.operator] \o " " \o RefLiteral(c.value)
  ELSE IF c.operator = "in"
  THEN c.field \o " ?~ ["
       \o RefJoin([i \in 1..Len(c.value.a) |-> RefLiteral(c.value.a[i])], Len(c.value.a), ", ")
       \o "]"
  ELSE IF c.operator = "contains" THEN c.field \o " ~ \"" \o RefText(c.value) \o "\""
  ELSE IF c.operator = "starts_with" THEN c.field \o " ~ \"" \o RefText(c.value) \o "%\""
  ELSE c.field \o " ~ \"%" \o RefText(c.value) \o "\""

\* One clause per condition that is not dropped, in input order.
RefClauses(where) ==
  LET kept == SelectSeq(where, LAMBDA c : ~RefDropped(c))
  IN [i \in 1..Len(kept) |-> RefClause(kept[i])]

RefCompile(where) == RefJoin(RefClauses(where), Len(RefClauses(where)), " && ")

\* C13: for every condition list of at most MaxConds conditions, the filter
\* parseWhere compiles (the one the operation sends) is the reference
\* compiler's: "" for an empty list; otherwise one clause per condition by the
\* operator table, strings double-quoted, numbers and booleans unquoted, `in`
\* as "field ?~ [..]" with elements joined by ", ", no clause for an `in`
\* whose value is not an array; the clauses in input order, not deduplicated,
\* joined by " && " with no leading or trailing separator.
C13_ParseWhereIsReference ==
  \A p \in Procs :
    (op[p] = "findOne" /\ pc[p] \in {"call", "done"}) =>
      LET where == args[p].where
      IN /\ CollCalls(p)[1].filter = RefCompile(where)
         /\ parseWhere(where) = RefCompile(where)
         /\ Len(where) = 0 => CollCalls(p)[1].filter = ""
         /\ Len(Filters(where)) =
              Cardinality({i \in 1..Len(where) : ~RefDropped(where[i])})

\* A findOne sent the filter compiled from an `in` condition over a string
\* and a number followed by a comparison with a number.
C13_Witness ==
  /\ op["p"] = "findOne" /\ pc["p"] = "done"
  /\ args["p"].where = <<Cond("f", "in", Arr(<<Str("a"), Num(7)>>)),
                         Cond("f", "gte", Num(7))>>
  /\ Pend("p").filter = "f ?~ [\"a\", 7] && f >= 7"

\* C14: a count that has resumed after the session bootstrap issues exactly one
\* list request, for page 1 with page size 1 and the compiled filter; when the
\* request succeeds it returns the total-item count the backend reported in
\* that response, not the number of items of the returned page (at most 1);
\* when the request fails it returns 0; it returns 0 only when the backend
\* reported 0 or the request failed.
C14_CountReturnsTotal ==
  \A p \in Procs :
    (op[p] = "count" /\ pc[p] \in {"call", "done"} /\ ~LoginRejected(p)) =>
      LET cs == CollCalls(p)
      IN /\ Len(cs) = 1
         /\ cs[1].kind = "getList" /\ cs[1].page = 1 /\ cs[1].perPage = 1
         /\ cs[1].filter = parseWhere(args[p].where)
         /\ (pc[p] = "done" /\ resp[p].err = NoErr) =>
              /\ result[p] = Number(resp[p].totalItems)
              /\ Len(items[p]) <= 1
         /\ (pc[p] = "done" /\ resp[p].err # NoErr) => result[p] = Number(0)
         /\ (pc[p] = "done" /\ result[p] = Number(0)) =>
              (resp[p].err # NoErr \/ resp[p].totalItems = 0)

\* A count over two matching records returned 2 although the fetched page held
\* one item; the other count reported 0 because its request failed.
C14_Witness ==
  \E p, q \in Procs :
    /\ op[p] = "count" /\ pc[p] = "done" /\ resp[p].err = NoErr
    /\ Len(items[p]) = 1
    /\ resp[p].totalItems = 2
    /\ result[p] = Number(2)
    /\ op[q] = "count" /\ CollCallFailed(q) /\ result[q] = Number(0)

\* The step completes a per-record call of invocation p successfully: the
\* backend applies the write Pend(p).
WriteApplied(p) ==
  /\ pc[p] = "call"
  /\ Pend(p).kind \in WriteKinds
  /\ (pc'[p] # pc[p] \/ calls'[p] # calls[p])
  /\ ~(pc'[p] = "done" /\ resp'[p].err # NoErr)

\* C16: in any interleaving of concurrent facade calls, a record is updated or
\* deleted by update, updateMany, delete or deleteMany only if, at the moment
\* of the write, it exists and satisfies the conditions of that operation.
C16_WriteOnlyMatching ==
  [][\A p \in Procs :
       WriteApplied(p) => Matches(db, Pend(p).id, Restricting(args[p].where))]_vars

\* Every condition of the list is an `in` condition whose value is not an array.
AllDroppedIn(where) ==
  /\ Len(where) >= 1
  /\ \A i \in 1..Len(where) : RefDropped(where[i])
\* The conditions left when the dropped `in` conditions are removed.
KeptConds(where) == SelectSeq(where, LAMBDA c : ~RefDropped(c))

\* C17: when every condition passed to updateMany or deleteMany is an `in`
\* condition whose value is not an array, the compiled filter is the empty
\* string, the fetch carries no filter, the fetched items are the first 500 at
\* most of all the records, and when no call fails every fetched record is
\* updated/deleted.  More generally the fetched (and written) records are those
\* matching the other conditions alone: the dropped condition's field is not
\* restricted.
C17_DroppedInUnrestricted ==
  \A p \in Procs :
    (op[p] \in BulkOps /\ pc[p] \in {"call", "done"}) =>
      LET cs == CollCalls(p)
          where == args[p].where
          fetched == Len(cs) >= 2 \/ (pc[p] = "done" /\ ~CollCallFailed(p))
          matching == MatchingIds(InitialDb, KeptConds(where))
      IN /\ AllDroppedIn(where) =>
              /\ cs[1].filter = ""
              /\ ~cs[1].hasFilter
              /\ matching = [i \in 1..Len(InitialDb) |-> i]
         /\ fetched =>
              /\ Len(items[p]) = Min(500, Len(matching))
              /\ \A i \in 1..Len(items[p]) : items[p][i].id = matching[i]
         /\ (pc[p] = "done" /\ ~CollCallFailed(p)) =>
              \A i \in 1..Len(items[p]) :
                db[items[p][i].id] = Written(op[p], InitialDb[items[p][i].id], args[p].update)

\* A deleteMany whose only condition was `v in 1` (not an array) fetched without
\* a filter and deleted both records of the collection, the one with v = 0 too.
C17_Witness ==
  /\ op["p"] = "deleteMany" /\ pc["p"] = "done" /\ ~CollCallFailed("p")
  /\ args["p"].where = <<Cond("v", "in", Num(1))>>
  /\ ~calls["p"][1].hasFilter
  /\ Len(db) = 2
  /\ InitialDb[2].v = 0 /\ db[2].st = "gone" /\ db[1].st = "gone"
  /\ result["p"] = Number(2)

\* C18: findOne, findMany and count never issue a create, update or delete
\* call; every update or delete call is issued by update, updateMany, delete or
\* deleteMany (an update call by update or updateMany, a delete call by delete
\* or deleteMany), after that invocation's own fetch, and targets the
\* identifier of an item that fetch returned; update and delete issue at most
\* one write call per invocation.
C18_WriteFootprint ==
  \A p \in Procs :
    /\ op[p] \in {"findOne", "findMany", "count"} =>
         \A i \in 1..Len(calls[p]) : calls[p][i].kind \notin {"create", "update", "delete"}
    /\ \A i \in 1..Len(calls[p]) :
         calls[p][i].kind \in WriteKinds =>
           /\ op[p] \in (IF calls[p][i].kind = "update"
                          THEN {"update", "updateMany"}
                          ELSE {"delete", "deleteMany"})
           /\ \E j \in 1..(i - 1) : calls[p][j].kind = "getList"
           /\ \E k \in 1..Len(items[p]) : items[p][k].id = calls[p][i].id
    /\ op[p] \in {"update", "delete"} => Len(WriteCalls(p)) <= 1

\* An updateMany wrote both items of its fetch, a delete wrote the one item of
\* its own fetch.
C18_Witness ==
  \E p, q \in Procs :
    /\ op[p] = "updateMany" /\ pc[p] = "done"
    /\ Len(WriteCalls(p)) = 2
    /\ WriteCalls(p)[1].id = items[p][1].id /\ WriteCalls(p)[2].id = items[p][2].id
    /\ op[q] = "delete" /\ pc[q] = "done" /\ resp[q].err = NoErr
    /\ Len(WriteCalls(q)) = 1
    /\ WriteCalls(q)[1].id = items[q][1].id
====
